---------------------------- MODULE Spec2Model ----------------------------
(***************************************************************************)
(* A model of the orchestration and resource-control layer of the AI tutor *)
(* service: the sliding-window RateLimiter (core/rate_limiter.py), the     *)
(* conversation store (core/memory.py, core/state.py) and the request      *)
(* handler ask_tutor (routers/tutor.py): translation of question and       *)
(* answer, the tool-cue test, strategy selection, the per-conversation     *)
(* agent session, the memory update and the error response; the document   *)
(* endpoints upload_file and remove_file (routers/documents.py) with the   *)
(* staging directory and the context lookup of the DocumentProcessor       *)
(* (processors/document_processor.py); and the shutdown (app.py,           *)
(* agents/mcp_agent.py).                                                   *)
(*                                                                         *)
(* The service runs on one asyncio event loop: a coroutine runs without    *)
(* interruption from one await to the next.  Each action below is one such *)
(* uninterrupted segment of a coroutine.                                   *)
(***************************************************************************)
EXTENDS Integers, Sequences, FiniteSets, TLC

(***************************************************************************)
(* Bounds of the model.                                                    *)
(***************************************************************************)
NCallers == 2      \* coroutines that call wait_if_needed on one limiter
MaxLimit == 2      \* calls_per_minute is drawn from 1..MaxLimit
MaxCalls == 4      \* acquires invoked in one behaviour
MaxTime == 160     \* the clock stops here (seconds)
Step == 20         \* the clock advances in steps of this many seconds
NRequests == 2     \* requests in flight at once
MaxRequests == 3   \* requests received in one behaviour
MaxWords == 3      \* words in a question of SpecCue
MaxAsks == 2       \* requests received in one behaviour of SpecAsk, SpecCue, SpecDocs
MaxUploads == 2    \* uploads received in one behaviour
MaxRemovals == 1   \* remove_file calls received in one behaviour

(***************************************************************************)
(* Program constants.                                                      *)
(***************************************************************************)
WINDOW == 60       \* the sliding window of wait_if_needed, in seconds
None == 0          \* Python's None, where a handle (1, 2, ...) may stand

VARIABLES
    \* ---- RateLimiter (core/rate_limiter.py) ----
    now,                \* time.time(), in seconds
    calls_per_minute,   \* self.calls_per_minute
    call_times,         \* self.call_times
    caller,             \* per coroutine: where it is in wait_if_needed
    granted,            \* history: every timestamp ever appended, in order
    started,            \* history: number of wait_if_needed calls invoked
    raised,             \* history: wait_if_needed raised an exception
    \* ---- conversation store and request handlers ----
    conversations,      \* core/state.py: conversation id -> conversation data
    tavily_key,         \* whether TAVILY_API_KEY is set
    req,                \* per request slot: where the handler coroutine is
    received,           \* history: number of requests received
    resolves,           \* history: every get_or_create_conversation call
    clients,            \* history: every (agent, client) get_mcp_agent made
    last,               \* history: the response last returned (kept in SpecAsk)
    \* ---- documents and shutdown ----
    disk,               \* the staging directory: path -> staged file
    upload,             \* where the upload_file coroutine is
    removal,            \* history: the latest remove_file call
    shutdown,           \* where shutdown_event is
    closed              \* history: the clients whose sessions were closed

rlvars == <<now, calls_per_minute, call_times, caller, granted, started, raised>>

storevars == <<conversations, tavily_key, req, received, resolves, clients, last>>

docvars == <<disk, upload, removal, shutdown, closed>>

vars == <<now, calls_per_minute, call_times, caller, granted, started, raised,
          conversations, tavily_key, req, received, resolves, clients, last,
          disk, upload, removal, shutdown, closed>>

Callers == 1..NCallers

(***************************************************************************)
(* Conversation store (core/memory.py, core/state.py)                      *)
(***************************************************************************)

Requests == 1..NRequests

\* The conversation ids callers send of their own.
ExplicitIds == {"conv_2", "alice"}

\* The conversation_id of a request: absent (None) or a string.
NoId == [given |-> FALSE, id |-> ""]
IdArgs == {NoId} \cup {[given |-> TRUE, id |-> i] : i \in ExplicitIds}

\* The dict get_or_create_conversation stores for a new id.  oid is the
\* identity of the dict object; memory is the turn list of the
\* ConversationBufferMemory; files is the filename mapping, a dict, kept as
\* the sequence of its entries in insertion order.
NewConversation(oid) ==
    [oid |-> oid, memory |-> <<>>, agent |-> None, client |-> None, files |-> <<>>]

\* The keys of a "files" mapping.
FileNames(files) == {files[i].name : i \in 1..Len(files)}

\* conversation_id = f"conv_{len(conversations) + 1}"
MintId(convs) == "conv_" \o ToString(Cardinality(DOMAIN convs) + 1)

\* The id get_or_create_conversation works with.
ResolveId(convs, arg) == IF arg.given THEN arg.id ELSE MintId(convs)

StoreAlwaysInit(convs, id, oid) ==
    [x \in DOMAIN convs \cup {id} |-> IF x = id THEN NewConversation(oid) ELSE convs[x]]

\* if conversation_id not in conversations: conversations[conversation_id] = {...}
StoreIfAbsent(convs, id, oid) ==
    IF id \in DOMAIN convs
    THEN convs
    ELSE [x \in DOMAIN convs \cup {id} |-> IF x = id THEN NewConversation(oid) ELSE convs[x]]

\* The record the history keeps of one get_or_create_conversation call:
\* the argument, the id and the object returned, whether the call created
\* the object, and what the returned object held.
ResolveRecord(convs, arg, id, after) ==
    [given |-> arg.given, id |-> id, oid |-> after[id].oid,
     created |-> id \notin DOMAIN convs,
     turns |-> Len(after[id].memory), agent |-> after[id].agent,
     files |-> FileNames(after[id].files)]

\* A request slot with no handler running in it.  In a running handler, n
\* is the request's serial number, id and agent the handler's locals
\* conversation_id and agent.
IdleRequest == [pc |-> "idle", n |-> 0, id |-> "", strategy |-> "", agent |-> None]

\* No exception.
NoCause == [type |-> "", status_code |-> 0, detail |-> ""]

\* The response returned since the latest request arrived, with the
\* handler's locals at that moment and the exception it caught, if any.
NoResponse == [status |-> 0, detail |-> <<>>, cause |-> NoCause, local |-> <<>>]

\* No upload_file handler running.  Once one has run: n is its serial
\* number, id and filename what it was called with, outcome how
\* process_file ended, status its response.
IdleUpload ==
    [pc |-> "idle", n |-> 0, id |-> "", filename |-> <<>>, outcome |-> "", status |-> 0]

\* No remove_file call made yet.  Once one was made: n is its serial
\* number, attached whether the conversation held the filename when it
\* was called, status its response.
NoRemoval == [n |-> 0, id |-> "", filename |-> <<>>, attached |-> FALSE, status |-> 0]

\* The application is serving: shutdown_event has not run.  at is the
\* position cleanup_mcp_sessions has reached in conversations.items().
Serving == [pc |-> "serving", at |-> 0]

\* No request in flight and nothing stored or staged: the state at import,
\* with TAVILY_API_KEY unset.
StoreInit ==
    /\ conversations = <<>>
    /\ tavily_key = FALSE
    /\ req = [r \in Requests |-> IdleRequest]
    /\ received = 0
    /\ resolves = <<>>
    /\ clients = <<>>
    /\ last = NoResponse
    /\ disk = <<>>
    /\ upload = IdleUpload
    /\ removal = NoRemoval
    /\ shutdown = Serving
    /\ closed = {}


(***************************************************************************)
(* RateLimiter                                                             *)
(***************************************************************************)

\* A coroutine outside wait_if_needed.  The other fields describe its latest
\* call: seq, its ordinal among the calls on this limiter (0: none yet);
\* current_time, the clock it read; limited, whether it found the limit
\* reached; wait_time, the wait it computed (0 when it computed none); wake,
\* when its sleep is due; sleeps, how often it suspended; appended, how many
\* timestamps it recorded.
IdleCaller == [pc |-> "idle", seq |-> 0, current_time |-> 0, limited |-> FALSE,
               wait_time |-> 0, wake |-> 0, sleeps |-> 0, appended |-> 0]

\* RateLimiter.__init__: an empty list and a positive limit.
RateLimiterInit ==
    /\ now = 0
    /\ calls_per_minute \in 1..MaxLimit
    /\ call_times = <<>>
    /\ caller = [c \in Callers |-> IdleCaller]
    /\ granted = <<>>
    /\ started = 0
    /\ raised = FALSE

PurgeKeepAll(ts, t) == ts

\* self.call_times = [t for t in self.call_times if current_time - t < 60]
Purge(ts, t) == SelectSeq(ts, LAMBDA x : t - x < WINDOW)

LimitReachedOffByOne(ts, limit) == Len(ts) > limit

\* len(self.call_times) >= self.calls_per_minute
LimitReached(ts, limit) == Len(ts) >= limit

WaitTimeSignSlip(ts, t) == WINDOW + (t - ts[1])

WaitTimeFromNewest(ts, t) == WINDOW - (t - ts[Len(ts)])

\* wait_time = 60 - (current_time - self.call_times[0])
WaitTime(ts, t) == WINDOW - (t - ts[1])

\* wait_if_needed from its first line to its first suspension or, when it
\* does not suspend, to its return.
Acquire(c) ==
    /\ caller[c].pc = "idle"
    /\ started < MaxCalls
    /\ now + WINDOW + Step <= MaxTime
    /\ started' = started + 1
    /\ LET current_time == now
           kept == Purge(call_times, current_time)
           entry == [IdleCaller EXCEPT !.current_time = current_time,
                                       !.seq = started + 1]
       IN IF LimitReached(kept, calls_per_minute)
          THEN IF Len(kept) = 0
               THEN \* self.call_times[0] on an empty list: IndexError
                    /\ raised' = TRUE
                    /\ call_times' = kept
                    /\ caller' = [caller EXCEPT ![c] = entry]
                    /\ UNCHANGED granted
               ELSE LET wait_time == WaitTime(kept, current_time)
                        seen == [entry EXCEPT !.limited = TRUE,
                                              !.wait_time = wait_time]
                    IN IF wait_time > 0
                       THEN \* await asyncio.sleep(wait_time)
                            /\ call_times' = kept
                            /\ caller' = [caller EXCEPT ![c] =
                                   [seen EXCEPT !.pc = "sleeping",
                                                !.wake = current_time + wait_time,
                                                !.sleeps = 1]]
                            /\ UNCHANGED <<granted, raised>>
                       ELSE /\ call_times' = Append(kept, now)
                            /\ granted' = Append(granted, now)
                            /\ caller' = [caller EXCEPT ![c] =
                                   [seen EXCEPT !.appended = 1]]
                            /\ UNCHANGED raised
          ELSE /\ call_times' = Append(kept, now)
               /\ granted' = Append(granted, now)
               /\ caller' = [caller EXCEPT ![c] = [entry EXCEPT !.appended = 1]]
               /\ UNCHANGED raised
    /\ UNCHANGED <<now, calls_per_minute>>
    /\ UNCHANGED storevars
    /\ UNCHANGED docvars

\* asyncio.sleep returns, no earlier than asked; the call appends the time
\* it reads then and returns.
Wake(c) ==
    /\ caller[c].pc = "sleeping"
    /\ now >= caller[c].wake
    /\ call_times' = Append(call_times, now)
    /\ granted' = Append(granted, now)
    /\ caller' = [caller EXCEPT ![c].pc = "idle",
                                ![c].appended = caller[c].appended + 1]
    /\ UNCHANGED <<now, calls_per_minute, started, raised>>
    /\ UNCHANGED storevars
    /\ UNCHANGED docvars

\* The clock advances.
Tick ==
    /\ now + Step <= MaxTime
    /\ now' = now + Step
    /\ UNCHANGED <<calls_per_minute, call_times, caller, granted, started, raised>>
    /\ UNCHANGED storevars
    /\ UNCHANGED docvars

NoneSleeping == \A c \in Callers : caller[c].pc = "idle"

\* Any number of coroutines share the limiter.
NextRL ==
    \/ \E c \in Callers : Acquire(c)
    \/ \E c \in Callers : Wake(c)
    \/ Tick

InitRL == RateLimiterInit /\ StoreInit

SpecRL == InitRL /\ [][NextRL]_vars

\* The event loop runs every timer that is due, and time passes.
FairSpecRL ==
    /\ SpecRL
    /\ WF_vars(Tick)
    /\ \A c \in Callers : WF_vars(Wake(c))

\* Acquires issued strictly one after another: a call starts only when no
\* other call is in flight.
AcquireSeq(c) == NoneSleeping /\ Acquire(c)

NextSeq ==
    \/ \E c \in Callers : AcquireSeq(c)
    \/ \E c \in Callers : Wake(c)
    \/ Tick

SpecSeq == InitRL /\ [][NextSeq]_vars

(***************************************************************************)
(* ask_tutor (routers/tutor.py)                                            *)
(*                                                                         *)
(* Conversations hold no documents, so find_relevant_context returns None; *)
(* get_llm is taken to return a model.  Spec, below, receives requests in  *)
(* English (the default language) with the default preference flags and    *)
(* lets them overlap; SpecAsk receives one request at a time, in any       *)
(* language and with any flags, with or without the search key.            *)
(***************************************************************************)

PhotosynthesisQuestion ==
    <<"W", "h", "a", "t", " ", "i", "s", " ", "p", "h", "o", "t", "o", "s",
      "y", "n", "t", "h", "e", "s", "i", "s", "?">>

ClimateQuestion ==
    <<"W", "h", "a", "t", " ", "a", "r", "e", " ", "t", "h", "e", " ", "l",
      "a", "t", "e", "s", "t", " ", "s", "t", "a", "t", "i", "s", "t", "i",
      "c", "s", " ", "o", "n", " ", "c", "l", "i", "m", "a", "t", "e", " ",
      "c", "h", "a", "n", "g", "e", "?">>

\* external_indicators of _needs_external_tools, in the order of the source.
external_indicators ==
    << <<"l", "a", "t", "e", "s", "t">>,
       <<"r", "e", "c", "e", "n", "t">>,
       <<"n", "e", "w", "s">>,
       <<"c", "u", "r", "r", "e", "n", "t">>,
       <<"s", "e", "a", "r", "c", "h">>,
       <<"f", "i", "n", "d">>,
       <<"l", "o", "o", "k", "u", "p">>,
       <<"r", "e", "s", "e", "a", "r", "c", "h">>,
       <<"w", "h", "a", "t", " ", "i", "s", " ", "t", "h", "e", " ", "c", "u", "r", "r", "e", "n", "t">>,
       <<"h", "o", "w", " ", "m", "a", "n", "y">>,
       <<"s", "t", "a", "t", "i", "s", "t", "i", "c", "s">>,
       <<"r", "e", "c", "o", "m", "m", "e", "n", "d">>,
       <<"w", "h", "e", "r", "e", " ", "c", "a", "n", " ", "i">>,
       <<"w", "h", "a", "t", " ", "a", "r", "e", " ", "t", "h", "e", " ", "b", "e", "s", "t">> >>

UpperCase ==
    <<"A", "B", "C", "D", "E", "F", "G", "H", "I", "J", "K", "L", "M",
      "N", "O", "P", "Q", "R", "S", "T", "U", "V", "W", "X", "Y", "Z">>

LowerCase ==
    <<"a", "b", "c", "d", "e", "f", "g", "h", "i", "j", "k", "l", "m",
      "n", "o", "p", "q", "r", "s", "t", "u", "v", "w", "x", "y", "z">>

\* The lower-case letter of each upper-case letter.
ToLower ==
    [c \in {UpperCase[i] : i \in 1..Len(UpperCase)} |->
        LowerCase[CHOOSE i \in 1..Len(UpperCase) : UpperCase[i] = c]]

\* str.lower on one character (of the characters the questions here use).
LowerChar(c) == IF c \in DOMAIN ToLower THEN ToLower[c] ELSE c

LowerKeepCase(s) == s

\* question.lower()
Lower(s) == [i \in 1..Len(s) |-> LowerChar(s[i])]

\* indicator in text
Contains(s, sub) ==
    \E p \in 0..(Len(s) - Len(sub)) : \A k \in 1..Len(sub) : s[p + k] = sub[k]

\* any(indicator in question.lower() for indicator in external_indicators)
NeedsExternalTools(question) ==
    LET lowered == Lower(question)
    IN \E i \in 1..Len(external_indicators) :
           Contains(lowered, external_indicators[i])

\* The words the questions of SpecCue are made of.
Words ==
    { <<"L", "a", "t", "e", "s", "t">>, <<"H", "o", "w">>, <<"m", "a", "n", "y">>,
      <<"c", "a", "t", "s">>, <<"f", "i", "n", "d", "i", "n", "g">>,
      <<"l", "a", "t", "e">> }

RECURSIVE Join(_)
\* The words of ws with one space between neighbours.
Join(ws) ==
    IF Len(ws) = 0 THEN <<>>
    ELSE IF Len(ws) = 1 THEN ws[1]
    ELSE ws[1] \o <<" ">> \o Join(Tail(ws))

\* The question texts SpecCue sends: every sentence of one to MaxWords words.
CueQuestions ==
    {PhotosynthesisQuestion, ClimateQuestion} \cup
    UNION { {Join(ws) : ws \in [1..k -> Words]} : k \in 1..MaxWords }

\* The TutorQuery of a request besides its conversation id and language:
\* the question and the three preference flags, here at their defaults
\* (use_tavily, use_mcp, no use_langgraph).
Queries ==
    { [question |-> t, use_langgraph |-> FALSE, use_tavily |-> TRUE, use_mcp |-> TRUE] :
        t \in {PhotosynthesisQuestion, ClimateQuestion} }

\* The same with every combination of the flags.
AllQueries ==
    [question : {PhotosynthesisQuestion, ClimateQuestion},
     use_langgraph : BOOLEAN, use_tavily : BOOLEAN, use_mcp : BOOLEAN]

\* The same with the default flags and the questions of SpecCue.
CueQueries ==
    { [question |-> t, use_langgraph |-> FALSE, use_tavily |-> TRUE, use_mcp |-> TRUE] :
        t \in CueQuestions }

\* request.language: a language name or code, "auto", or nothing ("" stands
\* for None and for the empty string, which the handler treats alike).
Languages == {"english", "en", "auto", "fr", ""}

\* What detect_language may return.
DetectedCodes == {"en", "fr"}

\* What translate_text(question, target_language="en") may return.
EnglishTexts == {PhotosynthesisQuestion, ClimateQuestion}

\* What a collaborator may raise: translate_text and detect_language raise
\* HTTPException with the status of the translation API or 500, the model,
\* search and agent calls raise exceptions of their own.
Causes ==
    { [type |-> "HTTPException", status_code |-> 403, detail |-> "Translation API error"],
      [type |-> "HTTPException", status_code |-> 500, detail |-> "Translation API key not configured"],
      [type |-> "RuntimeError", status_code |-> 0, detail |-> "connection reset"] }

\* str(e)
Str(e) ==
    IF e.type = "HTTPException"
    THEN ToString(e.status_code) \o ": " \o e.detail
    ELSE e.detail

ErrorPrefix == "Error processing request: "

ErrorResponseSameStatus(e) ==
    IF e.type = "HTTPException"
    THEN [status |-> e.status_code, detail |-> <<e.detail>>]
    ELSE [status |-> 500, detail |-> <<ErrorPrefix, Str(e)>>]

\* raise HTTPException(status_code=500, detail=f"Error processing request: {str(e)}")
ErrorResponse(e) == [status |-> 500, detail |-> <<ErrorPrefix, Str(e)>>]

IsEnglishCodeOnly(l) == l = "en"

\* language != "english" and language != "en", negated
IsEnglish(l) == l = "english" \/ l = "en"

\* if source_language and source_language != "en" and source_language != "english"
TranslatesBack(source_language) == source_language # "" /\ ~IsEnglish(source_language)

StrategyIgnoresCue(q, key) ==
    IF q.use_langgraph THEN "graph"
    ELSE IF q.use_tavily /\ key THEN "search"
    ELSE IF q.use_mcp THEN "agent"
    ELSE "plain"

StrategyNoFallback(q, key) ==
    IF q.use_tools
    THEN IF q.use_langgraph THEN "graph"
         ELSE IF q.use_tavily /\ key THEN "search"
         ELSE IF q.use_mcp THEN "agent"
         ELSE "none"
    ELSE "plain"

StrategyAgentFirst(q, key) ==
    IF q.use_tools
    THEN IF q.use_langgraph THEN "graph"
         ELSE IF q.use_mcp THEN "agent"
         ELSE IF q.use_tavily /\ key THEN "search"
         ELSE "plain"
    ELSE "plain"

\* The branch of the if-chain that answers the question.
Strategy(q, key) ==
    IF q.use_tools
    THEN IF q.use_langgraph THEN "graph"
         ELSE IF q.use_tavily /\ key THEN "search"
         ELSE IF q.use_mcp THEN "agent"
         ELSE "plain"
    ELSE "plain"

PersistTurnApart(conv, n, question, response) ==
    LET human == [speaker |-> "human", n |-> n, lang |-> question.lang]
        ai == [speaker |-> "ai", n |-> n, lang |-> response.lang]
        m == conv.memory
    IN [conv EXCEPT !.memory =
           IF m = <<>>
           THEN <<human, ai>>
           ELSE SubSeq(m, 1, Len(m) - 1) \o <<human, m[Len(m)], ai>>]

\* add_user_message(request.question); add_ai_message(response).  Of a
\* message the memory model keeps the speaker, the request it belongs to
\* and the language form of its text.
PersistTurn(conv, n, question, response) ==
    [conv EXCEPT !.memory = conv.memory \o
        <<[speaker |-> "human", n |-> n, lang |-> question.lang],
          [speaker |-> "ai", n |-> n, lang |-> response.lang]>>]

StoreAtExitRollsBack(convs, f, ok) ==
    IF ok
    THEN [convs EXCEPT ![f.id] = PersistTurn(convs[f.id], f.n, f.request.question, f.response)]
    ELSE [convs EXCEPT ![f.id].agent = None, ![f.id].client = None]

StoreAtExitAlways(convs, f, ok) ==
    [convs EXCEPT ![f.id] = PersistTurn(convs[f.id], f.n, f.request.question, f.response)]

\* The store as the handler leaves it: the persist step is the last
\* statement of the try block, so it runs when nothing before it raised.
StoreAtExit(convs, f, ok) ==
    IF ok
    THEN [convs EXCEPT ![f.id] = PersistTurn(convs[f.id], f.n, f.request.question, f.response)]
    ELSE convs

\* What one similarity_search call does: it returns documents, it returns
\* none, or it raises.
LookupOutcomes == {"hit", "miss", "raise"}

\* One outcome for each vectorstore of a "files" mapping.
Lookups(files) == [FileNames(files) -> LookupOutcomes]

\* relevant_content is not empty
Collected(probes) == \E i \in 1..Len(probes) : probes[i].outcome = "hit"

\* if file_name.lower() in question.lower() or not relevant_content
Searches(lowered, name, probes) ==
    Contains(lowered, Lower(name)) \/ ~Collected(probes)

\* The loop of find_relevant_context from entry i of the mapping on, in
\* insertion order.  probes lists the entries the loop has reached, each
\* with what became of it: "skipped" (the if is false) or the outcome of
\* its similarity_search.  Nothing catches a lookup that raises.
RECURSIVE Probe(_, _, _, _, _)
Probe(files, lowered, found, i, probes) ==
    IF i > Len(files)
    THEN probes
    ELSE LET name == files[i].name
             outcome == IF Searches(lowered, name, probes) THEN found[name] ELSE "skipped"
             reached == Append(probes, [name |-> name, outcome |-> outcome])
         IN IF outcome = "raise"
            THEN reached
            ELSE Probe(files, lowered, found, i + 1, reached)

\* file_context before find_relevant_context has returned.
NoContext == [none |-> TRUE, from |-> <<>>]

\* if not relevant_content: return None; return "\n\n".join(relevant_content).
\* Of the joined text the model keeps which entries it comes from.
ContextOf(probes) ==
    [none |-> ~Collected(probes), from |-> SelectSeq(probes, LAMBDA p : p.outcome = "hit")]

\* find_relevant_context: none for an empty mapping, else the loop.
FindRelevantContext(files, question, found) ==
    IF files = <<>>
    THEN [raised |-> FALSE, file_context |-> NoContext, probes |-> <<>>]
    ELSE LET probes == Probe(files, Lower(question), found, 1, <<>>)
         IN [raised |-> probes[Len(probes)].outcome = "raise",
             file_context |-> ContextOf(probes), probes |-> probes]

\* The handler's locals after get_or_create_conversation: the request
\* object (whose question the handler may overwrite), the text as the
\* caller wrote it ("source" form), and trace, the calls made so far.
Arrived(n, id, q, language) ==
    [pc |-> "arrived", n |-> n, id |-> id,
     request |-> [question |-> [lang |-> "source", chars |-> q.question],
                  language |-> language, use_langgraph |-> q.use_langgraph,
                  use_tavily |-> q.use_tavily, use_mcp |-> q.use_mcp],
     source_language |-> "", file_context |-> NoContext, probes |-> <<>>,
     use_tools |-> FALSE, strategy |-> "", agent |-> None,
     response |-> [lang |-> ""], sources |-> <<>>, trace |-> <<>>]

\* translate_text and detect_language acquire translation_rate_limiter and
\* then post to the translation service.
Translation(call) == <<call, "acquire translation", "call translation">>

\* The calls a branch makes up to its first await that can yield to
\* another coroutine's effect: the graph and plain branches are awaited as
\* one call each; the search branch acquires tavily_rate_limiter, searches
\* and runs the chain; the agent branch acquires ddg_rate_limiter.
BranchCalls(strategy) ==
    IF strategy = "agent" THEN <<"acquire ddg">>
    ELSE IF strategy = "search" THEN <<"search", "acquire tavily", "call tavily">>
    ELSE <<strategy>>

\* From find_relevant_context to the first await of the chosen branch.
\* files is the conversation's mapping and found what each index lookup
\* does.  A lookup that raises ends the try block: the exception is on its
\* way to the except clause, which touches nothing but the response.
Dispatch(f, key, files, found) ==
    LET ctx == FindRelevantContext(files, f.request.question.chars, found)
        use_tools == NeedsExternalTools(f.request.question.chars)
        strategy == Strategy([use_tools |-> use_tools,
                              use_langgraph |-> f.request.use_langgraph,
                              use_tavily |-> f.request.use_tavily,
                              use_mcp |-> f.request.use_mcp], key)
    IN IF ctx.raised
       THEN [f EXCEPT !.pc = "raised", !.probes = ctx.probes,
                      !.trace = Append(f.trace, "assemble")]
       ELSE [f EXCEPT !.file_context = ctx.file_context, !.probes = ctx.probes,
                      !.use_tools = use_tools, !.strategy = strategy,
                      !.pc = IF strategy = "agent" THEN "limiter" ELSE "answering",
                      !.trace = f.trace \o <<"assemble">> \o BranchCalls(strategy)]

\* source_language is known: translate the question unless it is English.
AfterSource(f, key, files, found) ==
    IF ~IsEnglish(f.source_language)
    THEN [f EXCEPT !.pc = "translating_in",
                   !.trace = f.trace \o Translation("translate_in")]
    ELSE Dispatch(f, key, files, found)

\* From the handler's first line to its first await.
FirstAwait(f, key, files, found) ==
    IF ~IsEnglish(f.request.language)
    THEN IF f.request.language = "auto"
         THEN [f EXCEPT !.pc = "detecting", !.trace = f.trace \o Translation("detect")]
         ELSE AfterSource([f EXCEPT !.source_language = f.request.language],
                          key, files, found)
    ELSE Dispatch(f, key, files, found)

\* What the awaited branch returns besides its answer: the urls it found
\* (sources) and, of the graph agent, whether it ran its search node.
\* The plain branch sets sources = [].
NoSources == [sources |-> <<>>, need_search |-> FALSE]

AnswerResults(strategy) ==
    IF strategy = "graph"
    THEN {NoSources, [sources |-> <<>>, need_search |-> TRUE],
          [sources |-> <<"url">>, need_search |-> TRUE]}
    ELSE IF strategy \in {"search", "agent"}
    THEN {NoSources, [sources |-> <<"url">>, need_search |-> FALSE]}
    ELSE {NoSources}

\* return TutorResponse(...)
OkResponse(f) == [status |-> 200, detail |-> <<>>, cause |-> NoCause, local |-> f]

\* The handler ends: the store is as it leaves it, the slot is free, and
\* the response is kept where responses are kept (keep).
Respond(r, convs, out, keep) ==
    /\ conversations' = convs
    /\ req' = [req EXCEPT ![r] = IdleRequest]
    /\ last' = IF keep THEN out ELSE last

\* The chosen branch has produced its English answer: translate it back if
\* the question was in another language, else persist the turn and respond.
AfterAnswer(r, f, keep) ==
    IF TranslatesBack(f.source_language)
    THEN /\ req' = [req EXCEPT ![r] =
                [f EXCEPT !.pc = "translating_out",
                          !.trace = f.trace \o Translation("translate_out")]]
         /\ UNCHANGED <<conversations, last>>
    ELSE LET g == [f EXCEPT !.pc = "returned", !.trace = Append(f.trace, "persist")]
         IN Respond(r, StoreAtExit(conversations, g, TRUE), OkResponse(g), keep)

\* The handler from its first line to its first await: it resolves the
\* conversation and, unless it has to detect or translate first, picks the
\* strategy.  (Free slots are alike: a request takes the first.)
AskStart(r, arg, q, language) ==
    /\ req[r].pc = "idle"
    /\ \A r2 \in Requests : r2 < r => req[r2].pc # "idle"
    /\ received < MaxRequests
    /\ shutdown.pc = "serving"
    /\ LET id == ResolveId(conversations, arg)
           after == StoreIfAbsent(conversations, id, Len(resolves) + 1)
       IN /\ conversations' = after
          /\ resolves' = Append(resolves, ResolveRecord(conversations, arg, id, after))
          /\ \E found \in Lookups(after[id].files) :
                req' = [req EXCEPT ![r] =
                    FirstAwait(Arrived(received + 1, id, q, language), tavily_key,
                               after[id].files, found)]
    /\ received' = received + 1
    /\ last' = NoResponse
    /\ UNCHANGED <<tavily_key, clients>>
    /\ UNCHANGED rlvars
    /\ UNCHANGED docvars

\* detect_language has returned a language code.
Detected(r, code) ==
    /\ req[r].pc = "detecting"
    /\ \E found \in Lookups(conversations[req[r].id].files) :
          req' = [req EXCEPT ![r] =
              AfterSource([req[r] EXCEPT !.source_language = code], tavily_key,
                          conversations[req[r].id].files, found)]
    /\ UNCHANGED <<conversations, tavily_key, received, resolves, clients, last>>
    /\ UNCHANGED rlvars
    /\ UNCHANGED docvars

\* translate_text has returned the question in English: the handler
\* overwrites request.question with it and goes on to pick the strategy.
TranslatedIn(r, chars) ==
    /\ req[r].pc = "translating_in"
    /\ \E found \in Lookups(conversations[req[r].id].files) :
          req' = [req EXCEPT ![r] =
              Dispatch([req[r] EXCEPT !.request.question = [lang |-> "en", chars |-> chars]],
                       tavily_key, conversations[req[r].id].files, found)]
    /\ UNCHANGED <<conversations, tavily_key, received, resolves, clients, last>>
    /\ UNCHANGED rlvars
    /\ UNCHANGED docvars

\* ddg_rate_limiter.wait_if_needed() has returned: the handler looks for the
\* conversation's agent and, finding none, awaits get_mcp_agent; finding
\* one, it awaits agent.run.
AgentCheck(r) ==
    /\ req[r].pc = "limiter"
    /\ IF conversations[req[r].id].agent = None
       THEN req' = [req EXCEPT ![r].pc = "creating"]
       ELSE req' = [req EXCEPT ![r].pc = "running",
                               ![r].agent = conversations[req[r].id].agent,
                               ![r].trace = Append(req[r].trace, "agent")]
    /\ UNCHANGED <<conversations, tavily_key, received, resolves, clients, last>>
    /\ UNCHANGED rlvars
    /\ UNCHANGED docvars

\* get_mcp_agent has returned a new agent and client: the handler stores
\* both in the conversation and awaits agent.run.
AgentCreated(r) ==
    /\ req[r].pc = "creating"
    /\ LET h == Len(clients) + 1
       IN /\ clients' = Append(clients, [conv |-> req[r].id, by |-> req[r].n])
          /\ conversations' = [conversations EXCEPT ![req[r].id].agent = h,
                                                     ![req[r].id].client = h]
          /\ req' = [req EXCEPT ![r].pc = "running", ![r].agent = h,
                                ![r].trace = Append(req[r].trace, "agent")]
    /\ UNCHANGED <<tavily_key, received, resolves, last>>
    /\ UNCHANGED rlvars
    /\ UNCHANGED docvars

\* agent.run has returned; extract_sources_from_agent_response gives the
\* sources.
AgentRanStep(r, res, keep) ==
    /\ req[r].pc = "running"
    /\ AfterAnswer(r, [req[r] EXCEPT !.response = [lang |-> "en"],
                                     !.sources = res.sources], keep)
    /\ UNCHANGED <<tavily_key, received, resolves, clients>>
    /\ UNCHANGED rlvars
    /\ UNCHANGED docvars

\* The graph agent, the search and model chain, or the plain model chain has
\* returned.  The graph agent's search node calls the search service with
\* no limiter in between.
AnsweredStep(r, res, keep) ==
    /\ req[r].pc = "answering"
    /\ AfterAnswer(r, [req[r] EXCEPT !.response = [lang |-> "en"],
                                     !.sources = res.sources,
                                     !.trace = IF res.need_search
                                               THEN Append(req[r].trace, "call tavily")
                                               ELSE req[r].trace], keep)
    /\ UNCHANGED <<tavily_key, received, resolves, clients>>
    /\ UNCHANGED rlvars
    /\ UNCHANGED docvars

\* translate_text has returned the answer in the source language: the
\* handler persists the turn and responds.
TranslatedOutStep(r, keep) ==
    /\ req[r].pc = "translating_out"
    /\ LET g == [req[r] EXCEPT !.response = [lang |-> req[r].source_language],
                               !.pc = "returned",
                               !.trace = Append(req[r].trace, "persist")]
       IN Respond(r, StoreAtExit(conversations, g, TRUE), OkResponse(g), keep)
    /\ UNCHANGED <<tavily_key, received, resolves, clients>>
    /\ UNCHANGED rlvars
    /\ UNCHANGED docvars

\* The awaited collaborator raises e: except Exception turns it into the
\* HTTP 500 response.
FailedStep(r, e, keep) ==
    /\ req[r].pc \in {"detecting", "translating_in", "raised", "creating", "running",
                      "answering", "translating_out"}
    /\ Respond(r, StoreAtExit(conversations, req[r], FALSE),
               [status |-> ErrorResponse(e).status, detail |-> ErrorResponse(e).detail,
                cause |-> e, local |-> req[r]],
               keep)
    /\ UNCHANGED <<tavily_key, received, resolves, clients>>
    /\ UNCHANGED rlvars
    /\ UNCHANGED docvars

\* The same steps where responses are not kept (and which exception was
\* raised makes no difference).
AgentRan(r) == AgentRanStep(r, NoSources, FALSE)

Answered(r) == AnsweredStep(r, NoSources, FALSE)

Failed(r) == FailedStep(r, CHOOSE e \in Causes : TRUE, FALSE)

\* The same steps where the last response is kept.
AgentRanKept(r) == \E res \in AnswerResults("agent") : AgentRanStep(r, res, TRUE)

AnsweredKept(r) == \E res \in AnswerResults(req[r].strategy) : AnsweredStep(r, res, TRUE)

TranslatedOutKept(r) == TranslatedOutStep(r, TRUE)

FailedKept(r) == \E e \in Causes : FailedStep(r, e, TRUE)

Next ==
    \/ \E r \in Requests, arg \in IdArgs, q \in Queries : AskStart(r, arg, q, "english")
    \/ \E r \in Requests : AgentCheck(r)
    \/ \E r \in Requests : AgentCreated(r)
    \/ \E r \in Requests : AgentRan(r)
    \/ \E r \in Requests : Answered(r)
    \/ \E r \in Requests : Failed(r)

\* The limiter is left untouched here.
Init == RateLimiterInit /\ calls_per_minute = MaxLimit /\ StoreInit

Spec == Init /\ [][Next]_vars

\* The conversation the requests of SpecAsk name.
AskId == [given |-> TRUE, id |-> "alice"]

\* One request at a time (slot 1) on one conversation: in English with any
\* flags, or in any language with the default flags.
NextAsk ==
    \/ \E q \in AllQueries :
          received < MaxAsks /\ AskStart(1, AskId, q, "english")
    \/ \E q \in Queries, language \in Languages :
          received < MaxAsks /\ AskStart(1, AskId, q, language)
    \/ \E code \in DetectedCodes : Detected(1, code)
    \/ \E chars \in EnglishTexts : TranslatedIn(1, chars)
    \/ AgentCheck(1)
    \/ AgentCreated(1)
    \/ AgentRanKept(1)
    \/ AnsweredKept(1)
    \/ TranslatedOutKept(1)
    \/ FailedKept(1)

\* As Init, with the search key set or not.
InitAsk ==
    /\ RateLimiterInit
    /\ calls_per_minute = MaxLimit
    /\ conversations = <<>>
    /\ tavily_key \in BOOLEAN
    /\ req = [r \in Requests |-> IdleRequest]
    /\ received = 0
    /\ resolves = <<>>
    /\ clients = <<>>
    /\ last = NoResponse
    /\ disk = <<>>
    /\ upload = IdleUpload
    /\ removal = NoRemoval
    /\ shutdown = Serving
    /\ closed = {}

SpecAsk == InitAsk /\ [][NextAsk]_vars

\* One request at a time, in English, with the questions of CueQuestions.
NextCue ==
    \/ \E q \in CueQueries : received < MaxAsks /\ AskStart(1, NoId, q, "english")
    \/ AgentCheck(1)
    \/ AgentCreated(1)
    \/ AgentRan(1)
    \/ Answered(1)
    \/ Failed(1)

SpecCue == Init /\ [][NextCue]_vars

(***************************************************************************)
(* Documents (routers/documents.py, processors/document_processor.py) and  *)
(* shutdown (app.py, agents/mcp_agent.py)                                  *)
(***************************************************************************)

\* The filenames callers upload: two of a supported format, one of which
\* spells its extension in capitals, and one of an unsupported format.
NotesTxt == <<"a", ".", "t", "x", "t">>
SlidesPdf == <<"b", ".", "P", "D", "F">>
ToolExe == <<"c", ".", "e", "x", "e">>

UploadNames == {NotesTxt, SlidesPdf, ToolExe}

\* self.temp_dir, one directory for every conversation.
TempDir == <<"/tmp/">>

\* file_path = os.path.join(self.temp_dir, file.filename)
TempPath(filename) == TempDir \o filename

\* os.path.splitext(filename)[1]: the text from the last dot on, none if
\* there is no dot after the first character.
SplitExt(filename) ==
    LET dots == {i \in 2..Len(filename) : filename[i] = "."}
    IN IF dots = {}
       THEN <<>>
       ELSE SubSeq(filename, CHOOSE d \in dots : \A e \in dots : e <= d, Len(filename))

\* The extensions process_file has a loader for.
LoaderExtensions ==
    {<<".", "p", "d", "f">>, <<".", "d", "o", "c", "x">>, <<".", "d", "o", "c">>,
     <<".", "t", "x", "t">>, <<".", "c", "s", "v">>}

\* file_extension = os.path.splitext(file.filename)[1].lower() is one the
\* if-chain knows.
HasLoader(filename) == Lower(SplitExt(filename)) \in LoaderExtensions

\* open(file_path, "wb"): the file of upload n of conversation id is at
\* path, whatever was there before.  Of a staged file the model keeps
\* whether it is there, which upload wrote it, and the conversation of the
\* operation that last wrote or removed it.
Stage(d, path, id, n) ==
    [p \in DOMAIN d \cup {path} |->
        IF p = path THEN [present |-> TRUE, by |-> id, upload |-> n] ELSE d[p]]

\* if os.path.exists(path): os.remove(path), in an operation of
\* conversation id.
Unstage(d, path, id) ==
    IF path \in DOMAIN d /\ d[path].present
    THEN [d EXCEPT ![path].present = FALSE, ![path].by = id]
    ELSE d

\* cleanup_files(conversation_data) in an operation of conversation id:
\* every entry's staged file is removed if it is there; an os.remove that
\* raises (the entries named in failing) is passed over.
CleanupFiles(d, files, failing, id) ==
    [p \in DOMAIN d |->
        IF /\ d[p].present
           /\ \E i \in 1..Len(files) : files[i].path = p /\ files[i].name \notin failing
        THEN [d[p] EXCEPT !.present = FALSE, !.by = id]
        ELSE d[p]]

\* conversation_data["files"][file.filename] = {...}: a new key goes to the
\* end of the dict, a known key keeps its place.
Attach(files, info) ==
    IF info.name \in FileNames(files)
    THEN [i \in 1..Len(files) |-> IF files[i].name = info.name THEN info ELSE files[i]]
    ELSE Append(files, info)

\* del conversation_data["files"][filename]
Detach(files, filename) == SelectSeq(files, LAMBDA e : e.name # filename)

\* The conversation ids uploads, removals and the questions about documents
\* name.
DocArgs == {[given |-> TRUE, id |-> i] : i \in ExplicitIds}

\* upload_file from its first line to await file.read(): the conversation
\* is resolved and the staged file opened for writing.
UploadStart(arg, filename) ==
    /\ upload.pc = "idle"
    /\ upload.n < MaxUploads
    /\ shutdown.pc = "serving"
    /\ LET id == ResolveId(conversations, arg)
           after == StoreIfAbsent(conversations, id, Len(resolves) + 1)
       IN /\ conversations' = after
          /\ resolves' = Append(resolves, ResolveRecord(conversations, arg, id, after))
          /\ disk' = Stage(disk, TempPath(filename), id, upload.n + 1)
          /\ upload' = [pc |-> "reading", n |-> upload.n + 1, id |-> id,
                        filename |-> filename, outcome |-> "", status |-> 0]
    /\ UNCHANGED <<tavily_key, req, received, clients, last, removal, shutdown, closed>>
    /\ UNCHANGED rlvars

\* The steps of process_file after the file is written: the loader, the
\* index.  Each may raise; "stored" is the run in which none does.
UploadSteps == {"read_failed", "load_failed", "index_failed", "stored"}

\* How process_file ends when step is the first step to raise: a file
\* with no loader never reaches the loader, and a loader whose file is
\* gone from the staging directory raises.
UploadOutcome(filename, staged, step) ==
    IF step = "read_failed" THEN "read_failed"
    ELSE IF ~HasLoader(filename) THEN "unsupported"
    ELSE IF ~staged THEN "load_failed"
    ELSE step

\* The staging directory as process_file leaves it: the two except paths
\* that remove the file are the unsupported format and the loader's
\* failure; a failed read and a failed FAISS.from_documents remove nothing.
UnstageOnFailure(d, path, id, outcome) ==
    IF outcome \in {"unsupported", "load_failed"} THEN Unstage(d, path, id) ELSE d

\* await file.read() has returned or raised: upload_file from there to its
\* response.  Any exception becomes a 500.
UploadRead(step) ==
    /\ upload.pc = "reading"
    /\ LET path == TempPath(upload.filename)
           outcome == UploadOutcome(upload.filename, disk[path].present, step)
           info == [name |-> upload.filename, path |-> path, vectorstore |-> upload.n]
       IN /\ disk' = UnstageOnFailure(disk, path, upload.id, outcome)
          /\ conversations' =
                IF outcome = "stored"
                THEN [conversations EXCEPT ![upload.id].files = Attach(@, info)]
                ELSE conversations
          /\ upload' = [upload EXCEPT !.pc = "idle", !.outcome = outcome,
                                      !.status = IF outcome = "stored" THEN 200 ELSE 500]
    /\ UNCHANGED <<tavily_key, req, received, resolves, clients, last,
                   removal, shutdown, closed>>
    /\ UNCHANGED rlvars

RemoveStatusAnyFile(convs, id, filename) ==
    IF id \notin DOMAIN convs THEN 404 ELSE 200

\* The status remove_file answers with: 404 for an unknown conversation
\* and for a filename the conversation does not hold.
RemoveStatus(convs, id, filename) ==
    IF id \notin DOMAIN convs THEN 404
    ELSE IF filename \notin FileNames(convs[id].files) THEN 404
    ELSE 200

\* remove_file, which has no await: on 200 the entry's staged file is
\* cleaned up and the entry deleted.
RemoveFile(id, filename) ==
    /\ removal.n < MaxRemovals
    /\ shutdown.pc = "serving"
    /\ LET status == RemoveStatus(conversations, id, filename)
       IN /\ removal' = [n |-> removal.n + 1, id |-> id, filename |-> filename,
                         attached |-> /\ id \in DOMAIN conversations
                                      /\ filename \in FileNames(conversations[id].files),
                         status |-> status]
          /\ IF status = 200
             THEN LET entry == SelectSeq(conversations[id].files,
                                         LAMBDA e : e.name = filename)
                  IN /\ \E failing \in SUBSET {filename} :
                           disk' = CleanupFiles(disk, entry, failing, id)
                     /\ conversations' =
                           [conversations EXCEPT ![id].files = Detach(@, filename)]
             ELSE UNCHANGED <<disk, conversations>>
    /\ UNCHANGED <<tavily_key, req, received, resolves, clients, last,
                   upload, shutdown, closed>>
    /\ UNCHANGED rlvars

\* conversations.items(): the ids in insertion order (oid grows with it).
RECURSIVE Items(_)
Items(convs) ==
    IF DOMAIN convs = {}
    THEN <<>>
    ELSE LET newest == CHOOSE id \in DOMAIN convs :
                           \A x \in DOMAIN convs : convs[x].oid <= convs[id].oid
         IN Append(Items([x \in DOMAIN convs \ {newest} |-> convs[x]]), newest)

\* cleanup_mcp_sessions from entry i of conversations.items() on: it stops
\* at the first conversation that has a client, to await
\* close_all_sessions; past the last entry shutdown_event returns.
CloseFrom(i) ==
    LET items == Items(conversations)
        live == {j \in i..Len(items) : conversations[items[j]].client # None}
    IN IF live = {}
       THEN [pc |-> "down", at |-> Len(items) + 1]
       ELSE [pc |-> "closing", at |-> CHOOSE j \in live : \A k \in live : j <= k]

\* shutdown_event starts, once no request is being served: it calls
\* cleanup_mcp_sessions and nothing else.
ShutdownStart ==
    /\ shutdown.pc = "serving"
    /\ upload.pc = "idle"
    /\ \A r \in Requests : req[r].pc = "idle"
    /\ shutdown' = CloseFrom(1)
    /\ UNCHANGED <<storevars, disk, upload, removal, closed>>
    /\ UNCHANGED rlvars

\* close_all_sessions has returned, or has raised: nothing catches the
\* exception, so it ends cleanup_mcp_sessions and shutdown_event.
ShutdownClosed(ok) ==
    /\ shutdown.pc = "closing"
    /\ IF ok
       THEN /\ closed' = closed \cup {conversations[Items(conversations)[shutdown.at]].client}
            /\ shutdown' = CloseFrom(shutdown.at + 1)
       ELSE /\ shutdown' = [shutdown EXCEPT !.pc = "failed"]
            /\ UNCHANGED closed
    /\ UNCHANGED <<storevars, disk, upload, removal>>
    /\ UNCHANGED rlvars

\* A question that names a.txt in capitals.
NotesQuestion ==
    <<"E", "x", "p", "l", "a", "i", "n", " ", "A", ".", "T", "X", "T">>

\* Uploads and removals on two conversations, one upload at a time.
NextDocs ==
    \/ \E arg \in DocArgs, filename \in UploadNames : UploadStart(arg, filename)
    \/ \E step \in UploadSteps : UploadRead(step)
    \/ \E id \in ExplicitIds, filename \in UploadNames : RemoveFile(id, filename)

SpecDocs == Init /\ [][NextDocs]_vars

\* The questions asked about documents, with the default flags: one names
\* a.txt, one names no document; neither holds a tool cue.
DocQueries ==
    {[question |-> q, use_langgraph |-> FALSE, use_tavily |-> TRUE, use_mcp |-> TRUE] :
        q \in {NotesQuestion, PhotosynthesisQuestion}}

\* Uploads of the two documents to one conversation and questions on it,
\* one upload and one question at a time.
NextContext ==
    \/ \E filename \in {NotesTxt, SlidesPdf} : UploadStart(AskId, filename)
    \/ \E step \in UploadSteps : UploadRead(step)
    \/ \E q \in DocQueries : received < MaxAsks /\ AskStart(1, AskId, q, "english")
    \/ Answered(1)
    \/ Failed(1)

SpecContext == Init /\ [][NextContext]_vars

\* A question with a tool cue and the default flags: the agent branch
\* answers it while the search key is unset.
AgentQuery ==
    [question |-> ClimateQuestion, use_langgraph |-> FALSE, use_tavily |-> TRUE,
     use_mcp |-> TRUE]

\* Two conversations get a document and an agent session, and the
\* application shuts down.
NextShutdown ==
    \/ \E arg \in DocArgs : UploadStart(arg, NotesTxt)
    \/ \E step \in UploadSteps : UploadRead(step)
    \/ \E arg \in DocArgs : received < MaxAsks /\ AskStart(1, arg, AgentQuery, "english")
    \/ AgentCheck(1)
    \/ AgentCreated(1)
    \/ AgentRan(1)
    \/ Failed(1)
    \/ ShutdownStart
    \/ \E ok \in BOOLEAN : ShutdownClosed(ok)

SpecShutdown == Init /\ [][NextShutdown]_vars

(***************************************************************************)
(* Properties of the RateLimiter                                           *)
(***************************************************************************)

\* The granted calls in the 60-second window that starts at time s.
InWindow(s) == {i \in 1..Len(granted) : s <= granted[i] /\ granted[i] < s + WINDOW}

Sleepers == {c \in Callers : caller[c].pc = "sleeping"}

\* C1: with any number of concurrent callers, no 60-second sliding window
\* contains more than calls_per_minute granted calls (every window that
\* matters starts at a granted call).
C1_NoWindowOverLimit ==
    \A i \in 1..Len(granted) : Cardinality(InWindow(granted[i])) <= calls_per_minute

\* The timestamps of a list that lie in the trailing window (now-60, now].
Trailing(ts) == {i \in 1..Len(ts) : now - ts[i] < WINDOW /\ ts[i] <= now}

\* C2: when acquires are issued one after another, the recorded timestamps
\* inside the trailing window (now-60, now] number at most calls_per_minute,
\* in the limiter's own list and in the history of all granted calls.
C2_TrailingWindowWithinLimit ==
    /\ Cardinality(Trailing(call_times)) <= calls_per_minute
    /\ Cardinality(Trailing(granted)) <= calls_per_minute

\* A call found the window full, slept, was granted, and the window is full
\* again right after it.
C2_Witness ==
    /\ NoneSleeping
    /\ \E c \in Callers : caller[c].sleeps = 1 /\ caller[c].appended = 1
    /\ Len(granted) > calls_per_minute
    /\ Cardinality(Trailing(call_times)) = calls_per_minute

\* C3: on a fresh limiter the first calls_per_minute successive calls do not
\* suspend, and call number calls_per_minute + 1, issued while all earlier
\* timestamps are less than 60 seconds old, suspends for
\* 60 - (now - t[0]) seconds, t[0] being the oldest timestamp.
C3_FirstCallsFreeThenWait ==
    \A c \in Callers :
        /\ (caller[c].seq >= 1 /\ caller[c].seq <= calls_per_minute)
              => caller[c].sleeps = 0 /\ caller[c].pc = "idle" /\ caller[c].appended = 1
        /\ (/\ caller[c].seq = calls_per_minute + 1
            /\ \A i \in 1..calls_per_minute :
                   caller[c].current_time - granted[i] < WINDOW)
              => /\ caller[c].sleeps = 1
                 /\ caller[c].wake - caller[c].current_time
                      = WINDOW - (caller[c].current_time - granted[1])

\* Call number calls_per_minute + 1 sleeps, having come some time after the
\* oldest call.
C3_Witness ==
    \E c \in Callers :
        /\ caller[c].seq = calls_per_minute + 1
        /\ caller[c].pc = "sleeping"
        /\ caller[c].current_time > granted[1]
        /\ calls_per_minute > 1

\* What holds of every call at every moment: it suspended at most once, for
\* at most 60 seconds, and once it has returned it has recorded exactly one
\* timestamp; no call is dropped.
CallsAccounted ==
    /\ \A c \in Callers :
          /\ caller[c].sleeps <= 1
          /\ caller[c].pc = "sleeping"
                => /\ caller[c].wake - caller[c].current_time <= WINDOW
                   /\ caller[c].appended = 0
          /\ (caller[c].pc = "idle" /\ caller[c].seq > 0) => caller[c].appended = 1
    /\ started = Len(granted) + Cardinality(Sleepers)

\* C4: under any interleaving of concurrent callers every acquire suspends
\* at most once, for at most 60 seconds, then records exactly one timestamp
\* and returns: a suspended caller eventually proceeds.
C4_EveryCallerProceeds ==
    /\ []CallsAccounted
    /\ \A c \in Callers : (caller[c].pc = "sleeping") ~> (caller[c].pc = "idle")

\* Two callers slept at once and both have been granted.
C4_Witness ==
    /\ NoneSleeping
    /\ \A c \in Callers : caller[c].sleeps = 1 /\ caller[c].appended = 1
    /\ started = Len(granted)

\* C5: wait_if_needed never raises (the list it indexes is never empty when
\* the limit is reached) and the wait it computes is never negative.
C5_AcquireNeverFails ==
    /\ ~raised
    /\ \A c \in Callers : caller[c].wait_time >= 0

\* Two concurrent callers found the limit reached and computed their waits.
C5_Witness ==
    /\ Cardinality({c \in Callers : caller[c].limited /\ caller[c].wait_time > 0}) >= 2
    /\ Cardinality(Sleepers) >= 2

(***************************************************************************)
(* Properties of the conversation store and of the agent session           *)
(***************************************************************************)

Resolved == 1..Len(resolves)

\* C6: get_or_create_conversation(conversations, None) returns an id that
\* was not a key of the store before the call, bound to a freshly
\* initialised state: empty memory, no files, no agent.
C6_MintedIdIsNew ==
    \A i \in Resolved :
        ~resolves[i].given
          => /\ resolves[i].created
             /\ resolves[i].turns = 0
             /\ resolves[i].files = {}
             /\ resolves[i].agent = None

\* C7: any two calls with an absent id return two distinct ids, whatever
\* explicit ids the store adopted before or between them.
C7_MintedIdsDistinct ==
    \A i, j \in Resolved :
        (i < j /\ ~resolves[i].given /\ ~resolves[j].given)
          => resolves[i].id # resolves[j].id

\* The call get_or_create_conversation made in this step, if the step made one.
LastResolve == resolves'[Len(resolves')]

\* C8: resolving an id that is in the store returns the state object stored
\* under it, with its turns, documents and agent as they were, and changes
\* no entry of the store.
C8_KnownIdReturnedUnchanged ==
    [][(/\ Len(resolves') = Len(resolves) + 1
        /\ LastResolve.given
        /\ LastResolve.id \in DOMAIN conversations)
         => /\ conversations' = conversations
            /\ LastResolve.oid = conversations[LastResolve.id].oid
            /\ LastResolve.turns = Len(conversations[LastResolve.id].memory)
            /\ LastResolve.files = FileNames(conversations[LastResolve.id].files)
            /\ LastResolve.agent = conversations[LastResolve.id].agent]_vars

\* A known id was resolved whose conversation held turns and an agent, in a
\* store that holds another conversation too.
C8_Witness ==
    /\ Cardinality(DOMAIN conversations) >= 2
    /\ \E i \in Resolved :
          /\ resolves[i].given
          /\ ~resolves[i].created
          /\ resolves[i].turns > 0
          /\ resolves[i].agent # None

\* C9: an id, once bound to a conversation, yields that same conversation
\* at every later resolve, and an id minted for a caller who sent none is
\* never the id of a conversation that existed already.
C9_IdsNeverReused ==
    /\ \A i, j \in Resolved :
          resolves[i].id = resolves[j].id => resolves[i].oid = resolves[j].oid
    /\ \A i \in Resolved :
          ~resolves[i].given => resolves[i].oid = i

\* C10: get_mcp_agent runs at most once per conversation, and no client it
\* made is overwritten in the conversation that owns it.
C10_AtMostOneSession ==
    /\ \A g, h \in 1..Len(clients) : clients[g].conv = clients[h].conv => g = h
    /\ \A h \in 1..Len(clients) : conversations[clients[h].conv].client = h

(***************************************************************************)
(* Properties of ask_tutor                                                 *)
(***************************************************************************)

Sessions == 1..Len(clients)

\* The session get_mcp_agent made first for conversation id.
FirstSession(id) ==
    CHOOSE h \in Sessions :
        clients[h].conv = id /\ \A g \in Sessions : clients[g].conv = id => h <= g

\* C11: a conversation has no agent session until a request of the agent
\* branch makes one, and every request that runs the agent on the
\* conversation runs the session made first for it: none makes another.
C11_SessionMadeOnceAndReused ==
    /\ \A id \in DOMAIN conversations :
          conversations[id].agent # None => \E h \in Sessions : clients[h].conv = id
    /\ \A h \in Sessions : clients[h].by \in 1..received
    /\ \A r \in Requests :
          req[r].pc = "running" => req[r].agent = FirstSession(req[r].id)

\* The locals of the request in flight and of the request that ended last.
Locals ==
    {req[r] : r \in {r2 \in Requests : req[r2].pc # "idle"}}
      \cup (IF last.status # 0 THEN {last.local} ELSE {})

\* The locals of requests that have picked their strategy.
Dispatched == {f \in Locals : f.strategy # ""}

Has(trace, call) == \E i \in 1..Len(trace) : trace[i] = call

Before(trace, a, b) ==
    \A i, j \in 1..Len(trace) : (trace[i] = a /\ trace[j] = b) => i < j

\* The two messages a request that returned 200 appended.
LastTurn(f) ==
    LET m == conversations[f.id].memory
    IN <<m[Len(m) - 1], m[Len(m)]>>

\* C12: the turn a successful request appends holds the question as the
\* caller wrote it, not its translation, and the answer as returned: in the
\* source language when the question was translated.
C12_MemoryKeepsOriginalQuestion ==
    last.status = 200 =>
        /\ LastTurn(last.local)[1] = [speaker |-> "human", n |-> last.local.n, lang |-> "source"]
        /\ LastTurn(last.local)[2] = [speaker |-> "ai", n |-> last.local.n,
                                      lang |-> last.local.response.lang]
        /\ Has(last.local.trace, "translate_in")
             => last.local.response.lang = last.local.source_language

C14_UniformProcessingError ==
    last.cause # NoCause =>
        /\ last.status = 500
        /\ last.detail = <<"Error processing request: ", Str(last.cause)>>

\* The translation API answered 403 to the question's translation, and the
\* handler answered 500.
C14_Witness ==
    /\ last.cause.type = "HTTPException"
    /\ last.cause.status_code = 403
    /\ last.local.pc = "translating_in"
    /\ last.status = 500

StrategyNames == {"graph", "search", "agent", "plain"}

\* C15: a request that returned 200 called exactly one of the graph agent,
\* the search chain, the tool agent and the plain chain.
C15_ExactlyOneStrategy ==
    last.status = 200 =>
        Cardinality({i \in 1..Len(last.local.trace) :
                        last.local.trace[i] \in StrategyNames}) = 1

\* A request with a tool cue and no preference set returned 200.
C15_Witness ==
    /\ last.status = 200
    /\ last.local.use_tools
    /\ ~last.local.request.use_langgraph
    /\ ~last.local.request.use_tavily
    /\ ~last.local.request.use_mcp

\* C16: with a tool cue the strategy is the first of graph (use_langgraph),
\* search (use_tavily and the key set) and agent (use_mcp) that applies,
\* and plain if none does; without a tool cue it is plain.
C16_StrategyOrder ==
    \A f \in Dispatched :
        LET graph == f.request.use_langgraph
            search == f.request.use_tavily /\ tavily_key
            agent == f.request.use_mcp
        IN /\ f.strategy = "graph" <=> (f.use_tools /\ graph)
           /\ f.strategy = "search" <=> (f.use_tools /\ ~graph /\ search)
           /\ f.strategy = "agent" <=> (f.use_tools /\ ~graph /\ ~search /\ agent)
           /\ f.strategy = "plain" <=> (~f.use_tools \/ (~graph /\ ~search /\ ~agent))

\* A request that preferred both search and agent, with the key set, was
\* answered by search.
C16_Witness ==
    /\ last.status = 200
    /\ tavily_key
    /\ last.local.request.use_tavily
    /\ last.local.request.use_mcp
    /\ last.local.strategy = "search"

\* C17: no request is dispatched to a strategy that needs the search key
\* (graph, search) while the key is not set.
C17_NoDispatchWithoutKey ==
    \A f \in Dispatched : f.strategy \in {"graph", "search"} => tavily_key

\* C19: detect_language is called exactly for language "auto" and before
\* any translation; the question is translated only if the language is
\* neither "english" nor "en" and the source language neither "en" nor
\* "english".
C19_TranslateInConditions ==
    \A f \in Locals :
        /\ Has(f.trace, "detect") <=> f.request.language = "auto"
        /\ Before(f.trace, "detect", "translate_in")
        /\ Has(f.trace, "translate_in")
             => /\ f.request.language \notin {"english", "en"}
                /\ f.source_language \notin {"en", "english"}

\* A request with language "auto" whose question was detected as French had
\* it translated and returned 200.
C19_Witness ==
    /\ last.status = 200
    /\ last.local.request.language = "auto"
    /\ last.local.source_language = "fr"
    /\ Has(last.local.trace, "detect")
    /\ Has(last.local.trace, "translate_in")

\* C20: a request that returned 200 translated its answer exactly if it had
\* translated its question, into the source language, after the strategy
\* ran and before the turn was persisted; context assembly and strategy
\* selection came after the question's translation.
C20_TranslateOutIffTranslatedIn ==
    last.status = 200 =>
        LET t == last.local.trace
        IN /\ Has(t, "translate_out") <=> Has(t, "translate_in")
           /\ Has(t, "translate_out") => last.local.response.lang = last.local.source_language
           /\ Before(t, last.local.strategy, "translate_out")
           /\ Before(t, "translate_out", "persist")
           /\ Before(t, "translate_in", "assemble")

\* Whether a phrase of the cue list stands at some position of the text,
\* letter case apart.
HasCue(text) ==
    \E i \in 1..Len(external_indicators), p \in 1..Len(text) :
        /\ p + Len(external_indicators[i]) - 1 <= Len(text)
        /\ [k \in 1..Len(external_indicators[i]) |-> LowerChar(text[p + k - 1])]
             = external_indicators[i]

\* C18: use_tools is true exactly when the lower-cased question holds a
\* phrase of the cue list as a substring; "What is photosynthesis?" holds
\* none, "What are the latest statistics on climate change?" holds one.
C18_CueIsSubstringMatch ==
    /\ \A r \in Requests :
          (req[r].pc # "idle" /\ req[r].strategy # "")
            => (req[r].use_tools <=> HasCue(req[r].request.question.chars))
    /\ ~NeedsExternalTools(PhotosynthesisQuestion)
    /\ NeedsExternalTools(ClimateQuestion)

\* The question "How many cats" was found to hold a cue.
C18_Witness ==
    \E r \in Requests :
        /\ req[r].pc # "idle"
        /\ req[r].request.question.chars =
               <<"H", "o", "w", " ", "m", "a", "n", "y", " ", "c", "a", "t", "s">>
        /\ req[r].use_tools

\* C21: a request on a conversation with no documents whose question holds
\* no tool cue is dispatched to the plain strategy and to no other,
\* whatever its preference flags; when it has returned 200 it has called
\* the plain chain once, its sources are empty, and the conversation's
\* turn list is the one it found with one user message and then one AI
\* message of this request appended.
C21_PlainWithoutCue ==
    \A f \in Dispatched :
        (f.probes = <<>> /\ ~HasCue(f.request.question.chars)) =>
            /\ f.strategy = "plain"
            /\ \A i \in 1..Len(f.trace) : f.trace[i] \in StrategyNames => f.trace[i] = "plain"
            /\ f.pc = "returned" =>
                  /\ Cardinality({i \in 1..Len(f.trace) : f.trace[i] = "plain"}) = 1
                  /\ f.sources = <<>>
                  /\ Len(conversations[f.id].memory) = resolves[f.n].turns + 2
                  /\ LastTurn(f)[1].speaker = "human" /\ LastTurn(f)[1].n = f.n
                  /\ LastTurn(f)[2].speaker = "ai" /\ LastTurn(f)[2].n = f.n

\* A question without a cue, sent with every preference flag set while the
\* search key is set, has been answered on a conversation that held a turn.
C21_Witness ==
    /\ last.status = 200
    /\ tavily_key
    /\ last.local.request.use_langgraph
    /\ last.local.request.use_tavily
    /\ last.local.request.use_mcp
    /\ ~HasCue(last.local.request.question.chars)
    /\ last.local.strategy = "plain"
    /\ resolves[last.local.n].turns > 0

(***************************************************************************)
(* Properties of documents and shutdown                                    *)
(***************************************************************************)

\* Conversation id holds an entry for filename.
Attached(id, filename) ==
    /\ id \in DOMAIN conversations
    /\ filename \in FileNames(conversations[id].files)

\* C22: a remove_file call for a filename the conversation does not hold
\* (or for an unknown conversation) answers 404, changes no conversation's
\* document mapping and removes no staged file.
C22_DetachUnattachedIsNotFound ==
    [][(removal'.n # removal.n /\ ~Attached(removal'.id, removal'.filename))
         => /\ removal'.status = 404
            /\ conversations' = conversations
            /\ disk' = disk]_vars

\* remove_file answered 404 for a filename the conversation does not hold
\* while it holds another document and a file of that name is staged.
C22_Witness ==
    /\ removal.n > 0
    /\ removal.status = 404
    /\ ~removal.attached
    /\ removal.id \in DOMAIN conversations
    /\ conversations[removal.id].files # <<>>
    /\ TempPath(removal.filename) \in DOMAIN disk
    /\ disk[TempPath(removal.filename)].present

\* C25: the staged file of a document attached to a conversation was last
\* written or removed by an operation of that conversation: no upload or
\* removal in another conversation has overwritten or removed it.
C25_StagingOwnedByConversation ==
    \A id \in DOMAIN conversations :
        \A i \in 1..Len(conversations[id].files) :
            disk[conversations[id].files[i].path].by = id

\* Some conversation's document mapping refers to path.
Referenced(path) ==
    \E id \in DOMAIN conversations :
        \E i \in 1..Len(conversations[id].files) : conversations[id].files[i].path = path

\* C26: when an upload has failed for an unsupported format, in the loader
\* or in the index construction, the file it wrote is not in the staging
\* directory unless a document mapping refers to it.
C26_NoStagedFileAfterFailedUpload ==
    (upload.pc = "idle" /\ upload.outcome \in {"unsupported", "load_failed", "index_failed"}) =>
        LET path == TempPath(upload.filename)
        IN (disk[path].present /\ disk[path].upload = upload.n) => Referenced(path)

\* C24: once shutdown has ended, normally or by an exception, no attached
\* document of any conversation has its staged file left and every
\* conversation's client has had its sessions closed.
C24_ShutdownReleasesEverything ==
    shutdown.pc \in {"down", "failed"} =>
        \A id \in DOMAIN conversations :
            /\ \A i \in 1..Len(conversations[id].files) :
                  ~disk[conversations[id].files[i].path].present
            /\ conversations[id].client # None => conversations[id].client \in closed

\* C27: a request whose context assembly met an index lookup that raised
\* is not aborted: it goes on to pick its strategy.
C27_LookupFailureIsolated ==
    \A f \in Locals :
        (\E i \in 1..Len(f.probes) : f.probes[i].outcome = "raise")
            => (f.pc # "raised" /\ f.strategy # "")

\* Request slot r runs find_relevant_context in this step (its request is
\* in English: nothing is awaited before).
Assembles(r) == req[r].pc = "idle" /\ req'[r].pc # "idle"

\* C28: find_relevant_context returns none when the conversation holds no
\* document and when no lookup returned a fragment; and on every path it
\* leaves the conversation as it was (a conversation the request has just
\* created is still empty) and the staging directory too.
C28_AssembleNoneAndNoMutation ==
    [][\A r \in Requests :
          Assembles(r) =>
              LET f == req'[r]
                  files == conversations'[f.id].files
              IN /\ (files = <<>> \/ \A i \in 1..Len(f.probes) : f.probes[i].outcome # "hit")
                       => (f.pc # "raised" /\ f.file_context.none)
                 /\ IF f.id \in DOMAIN conversations
                    THEN conversations' = conversations
                    ELSE /\ conversations'[f.id].memory = <<>>
                         /\ conversations'[f.id].files = <<>>
                         /\ conversations'[f.id].agent = None
                         /\ conversations'[f.id].client = None
                 /\ disk' = disk]_vars

\* The filename stands at some position of the text, letter case apart.
Named(name, text) ==
    \E p \in 1..Len(text) :
        /\ p + Len(name) - 1 <= Len(text)
        /\ \A k \in 1..Len(name) : LowerChar(text[p + k - 1]) = LowerChar(name[k])

\* C29: in find_relevant_context every entry of the mapping whose filename
\* occurs in the question, letter case apart, is searched; an entry whose
\* filename does not occur is searched only if no fragment has been
\* collected before it; and the first entry of a mapping is searched.
C29_SearchOrder ==
    [][\A r \in Requests :
          Assembles(r) =>
              LET f == req'[r]
                  files == conversations'[f.id].files
                  question == f.request.question.chars
                  searched(i) == /\ i <= Len(f.probes)
                                 /\ f.probes[i].name = files[i].name
                                 /\ f.probes[i].outcome # "skipped"
              IN /\ \A i \in 1..Len(files) :
                       Named(files[i].name, question) => searched(i)
                 /\ \A i \in 1..Len(files) :
                       (searched(i) /\ ~Named(files[i].name, question))
                           => \A j \in 1..(i - 1) : f.probes[j].outcome # "hit"
                 /\ files # <<>> => searched(1)]_vars

\* The acquire that has to precede each call of a rate-limited service:
\* a search by tavily_rate_limiter, a run of the tool agent by
\* ddg_rate_limiter, a translation or detection by
\* translation_rate_limiter.
LimiterOf ==
    [call \in {"call tavily", "agent", "call translation"} |->
        IF call = "call tavily" THEN "acquire tavily"
        ELSE IF call = "agent" THEN "acquire ddg"
        ELSE "acquire translation"]

\* How often call stands among the first i entries of the trace.
Count(trace, i, call) == Cardinality({j \in 1..i : trace[j] = call})

\* C30: in every request, each call of a rate-limited service comes after
\* an acquire on that service's limiter that no earlier call has used.
C30_EveryCallAfterAcquire ==
    \A f \in Locals :
        \A i \in 1..Len(f.trace) :
            f.trace[i] \in DOMAIN LimiterOf =>
                Count(f.trace, i, LimiterOf[f.trace[i]]) >= Count(f.trace, i, f.trace[i])

(***************************************************************************)
(* Properties of the store under failure, overlap and removal              *)
(***************************************************************************)

\* C31: whatever the overlap of requests on one conversation, its turn
\* list is a sequence of pairs: a user message and then the AI message of
\* the same request, with no other request's message between them.
C31_TurnPairsAdjacent ==
    \A id \in DOMAIN conversations :
        LET m == conversations[id].memory
        IN /\ Len(m) % 2 = 0
           /\ \A k \in 1..(Len(m) \div 2) :
                 /\ m[2 * k - 1].speaker = "human"
                 /\ m[2 * k].speaker = "ai"
                 /\ m[2 * k - 1].n = m[2 * k].n

\* Two requests on one conversation overlapped: the one that arrived later
\* appended its pair first.
C31_Witness ==
    \E id \in DOMAIN conversations :
        LET m == conversations[id].memory
        IN Len(m) >= 4 /\ m[1].n > m[3].n

\* C32: the step in which a request fails changes nothing in the store:
\* the conversation the request resolved is still there, with no turn if
\* the request created it, and the agent and client the request made
\* before its agent run failed are still the conversation's.
C32_NoRollbackOnFailure ==
    [][(last.status = 0 /\ last'.cause # NoCause) =>
          LET f == last'.local
          IN /\ conversations' = conversations
             /\ f.id \in DOMAIN conversations'
             /\ resolves[f.n].created => conversations'[f.id].memory = <<>>
             /\ (f.agent # None /\ clients[f.agent].by = f.n)
                   => /\ conversations'[f.id].agent = f.agent
                      /\ conversations'[f.id].client = f.agent]_vars

\* The request that created the conversation and its agent session failed
\* in the agent run: entry and session are in the store, the memory empty.
C32_Witness ==
    /\ last.cause # NoCause
    /\ last.local.pc = "running"
    /\ resolves[last.local.n].created
    /\ clients[last.local.agent].by = last.local.n
    /\ conversations[last.local.id].agent = last.local.agent
    /\ conversations[last.local.id].memory = <<>>

\* C33: a remove_file call that answers 200 removes the staged file of
\* the document and deletes that filename, and no other, from the
\* conversation's mapping; every other document of the conversation is
\* still attached with its staged file present; turns, agent and client
\* of the conversation, and the other conversations, are unchanged.
C33_DetachFrame ==
    [][(removal'.n # removal.n /\ removal'.status = 200) =>
          LET id == removal'.id
              path == TempPath(removal'.filename)
              before == conversations[id].files
              after == conversations'[id].files
          IN /\ ~disk'[path].present
             /\ FileNames(after) = FileNames(before) \ {removal'.filename}
             /\ \A i \in 1..Len(after) :
                   /\ \E j \in 1..Len(before) : before[j] = after[i]
                   /\ disk'[after[i].path].present
             /\ conversations'[id].memory = conversations[id].memory
             /\ conversations'[id].agent = conversations[id].agent
             /\ conversations'[id].client = conversations[id].client
             /\ \A x \in DOMAIN conversations : x # id => conversations'[x] = conversations[x]
             /\ DOMAIN conversations' = DOMAIN conversations]_vars

=============================================================================
